---- MODULE Spec2Model ----
(***************************************************************************)
(* Words-Training game server (src/main.py): a threaded static file server *)
(* built from socketserver.TCPServer + ThreadingMixIn and                  *)
(* http.server.SimpleHTTPRequestHandler (CPython 3.11 library semantics).  *)
(*                                                                         *)
(* The main thread runs module load, start_game_server and the accept      *)
(* loop; every accepted connection gets a GameHandler instance that runs   *)
(* on the thread process_request chooses.                                  *)
(***************************************************************************)
EXTENDS Naturals, Sequences, FiniteSets

VARIABLES
    pc,          \* position of the main thread
    types_map,   \* mimetypes' strict extension -> type table (module state)
    platform,    \* the platform default table mimetypes.init() loaded
    fs,          \* content of DIRECTORY: [files, dirs], sets of path segments
    cwd,         \* the process working directory
    portBusy,    \* another process already listens on PORT
    output,      \* what the main thread printed, in order
    hs,          \* per connection: the socket, its thread, its GameHandler
    browserAttempts, \* calls of webbrowser.open so far
    bindAttempts,    \* constructions of ThreadedHTTPServer so far
    intCount,    \* KeyboardInterrupts delivered to the main thread so far
    intAt,       \* phase of the latest KeyboardInterrupt ("none" if none)
    excAt        \* phase of the latest other exception ("none" if none)

vars == <<pc, types_map, platform, fs, cwd, portBusy, output, hs,
          browserAttempts, bindAttempts, intCount, intAt, excAt>>

----------------------------------------------------------------------------
(* Bounds *)

\* connections a run opens
MaxConn == 2
\* KeyboardInterrupts a run delivers
MaxInterrupts == 1

\* PORT
PORT == 8000
\* DIRECTORY: the directory main.py lives in
DIRECTORY == "DIRECTORY"

Conns == 1..MaxConn

----------------------------------------------------------------------------
(* File names, URL paths, the served directory *)

\* A file name: stem, extension, and a trailing encoding suffix ("" if none):
\* lib.ts.br is Name("lib", ".ts", ".br").
Name(stem, ext, enc) == [stem |-> stem, ext |-> ext, enc |-> enc]

IndexHtml == Name("index", ".html", "")
IndexHtm  == Name("index", ".htm", "")
AppTsx    == Name("app", ".tsx", "")
LibTs     == Name("lib", ".ts", "")
DataJson  == Name("data", ".json", "")
MainTS    == Name("MAIN", ".TS", "")
NotesZzz  == Name("notes", ".zzz", "")
LibTsBr   == Name("lib", ".ts", ".br")
LibTsGz   == Name("lib", ".ts", ".gz")
Sub       == Name("sub", "", "")
Nope      == Name("nope", ".html", "")

\* A request path as the handler holds it in self.path: the segments between
\* slashes, whether the path part ends in '/', whether a '?query' follows.
UrlPath(segs, slash, query) == [segs |-> segs, slash |-> slash, query |-> query]

\* '/'
RootPath  == UrlPath(<<>>, TRUE, FALSE)
\* '/index.html'
IndexPath == UrlPath(<<IndexHtml>>, FALSE, FALSE)

Paths ==
    { RootPath, IndexPath,
      UrlPath(<<>>, TRUE, TRUE),              \* '/?q'
      UrlPath(<<IndexHtm>>, FALSE, FALSE),
      UrlPath(<<AppTsx>>, FALSE, FALSE),
      UrlPath(<<AppTsx>>, TRUE, FALSE),       \* '/app.tsx/'
      UrlPath(<<LibTs>>, FALSE, TRUE),        \* '/lib.ts?q'
      UrlPath(<<DataJson>>, FALSE, FALSE),
      UrlPath(<<MainTS>>, FALSE, FALSE),
      UrlPath(<<NotesZzz>>, FALSE, FALSE),
      UrlPath(<<LibTsBr>>, FALSE, FALSE),
      UrlPath(<<LibTsGz>>, FALSE, FALSE),
      UrlPath(<<Sub>>, FALSE, FALSE),         \* '/sub'
      UrlPath(<<Sub>>, TRUE, FALSE),          \* '/sub/'
      UrlPath(<<Sub, AppTsx>>, FALSE, FALSE), \* '/sub/app.tsx'
      UrlPath(<<Nope>>, FALSE, FALSE) }

\* The directory main.py lives in (DIRECTORY), in three shapes: with
\* index.html, with index.htm only, with no index page.
FsConfigs ==
    { [files |-> { <<IndexHtml>>, <<IndexHtm>>, <<AppTsx>>, <<LibTs>>, <<DataJson>>,
                   <<MainTS>>, <<NotesZzz>>, <<LibTsBr>>, <<LibTsGz>>,
                   <<Sub, IndexHtm>>, <<Sub, AppTsx>> },
       dirs  |-> { <<>>, <<Sub>> }],
      [files |-> { <<IndexHtm>>, <<AppTsx>>, <<LibTs>>, <<DataJson>> },
       dirs  |-> { <<>>, <<Sub>> }],
      [files |-> { <<AppTsx>>, <<MainTS>>, <<LibTsBr>> },
       dirs  |-> { <<>> }] }

isdir(f, segs)  == segs \in f.dirs
isfile(f, segs) == segs \in f.files

----------------------------------------------------------------------------
(* MIME tables *)

NoType == "None"

\* str.lower() on the extensions of the model
Lower(ext) == IF ext = ".TS" THEN ".ts" ELSE ext

\* Platform default tables mimetypes.init() can load: CPython's built-in
\* table (no .ts, no .tsx), a mime.types that knows .ts as MPEG transport
\* stream, a registry that calls every source file text/plain.
PlatformTables ==
    { [e \in {".html", ".htm", ".json"} |->
          IF e = ".json" THEN "application/json" ELSE "text/html"],
      [e \in {".html", ".htm", ".json", ".ts"} |->
          CASE e = ".json" -> "application/json"
            [] e = ".ts"   -> "video/mp2t"
            [] OTHER       -> "text/html"],
      [e \in {".html", ".htm", ".json", ".ts", ".tsx"} |->
          IF e \in {".html", ".htm"} THEN "text/html" ELSE "text/plain"] }

\* MimeTypes.add_type bug variant: keeps a type the table already has
add_type_keep(tm, type, ext) ==
    [e \in DOMAIN tm \cup {ext} |-> IF e \in DOMAIN tm THEN tm[e] ELSE type]

\* mimetypes.add_type(type, ext): the new type replaces a known extension's
add_type(tm, type, ext) ==
    [e \in DOMAIN tm \cup {ext} |-> IF e = ext THEN type ELSE tm[e]]

\* the three registrations of module load
RegisterOverrides(tm) ==
    add_type(add_type(add_type(tm, "application/javascript", ".ts"),
                      "application/javascript", ".tsx"),
             "application/json", ".json")

\* SimpleHTTPRequestHandler.extensions_map
extensions_map ==
    [e \in {".gz", ".Z", ".bz2", ".xz"} |->
        CASE e = ".gz"  -> "application/gzip"
          [] e = ".Z"   -> "application/octet-stream"
          [] e = ".bz2" -> "application/x-bzip2"
          [] OTHER      -> "application/x-xz"]

\* mimetypes' encodings_map keys
encodings_map == {".gz", ".Z", ".bz2", ".xz", ".br"}

\* posixpath.splitext(path)[1]: the last suffix of the file name
splitext(name) == IF name.enc # "" THEN name.enc ELSE name.ext

\* mimetypes.guess_type(path)[0] against table tm: an encoding suffix is
\* stripped, the extension is lower-cased, then looked up
mimetypes_guess_type(tm, name) ==
    LET e0 == splitext(name)
        e  == Lower(IF e0 \in encodings_map THEN name.ext ELSE e0)
    IN  IF e \in DOMAIN tm THEN tm[e] ELSE NoType

\* SimpleHTTPRequestHandler.guess_type(path) against table tm
guess_type(tm, name) ==
    LET ext == splitext(name) IN
    IF ext \in DOMAIN extensions_map THEN extensions_map[ext]
    ELSE IF Lower(ext) \in DOMAIN extensions_map THEN extensions_map[Lower(ext)]
    ELSE LET guess == mimetypes_guess_type(tm, name) IN
         IF guess # NoType THEN guess ELSE "application/octet-stream"

----------------------------------------------------------------------------
(* Requests *)

\* A request as the handler reads it: the request line split into words
\* (n of them: command, path, an extra word when n = 4, version last when
\* n >= 3) and whether an If-Modified-Since header not older than the file
\* came with it.
Request(n, command, path, version, ims) ==
    [n |-> n, command |-> command, path |-> path, version |-> version, ims |-> ims]

NoReq == Request(0, "", RootPath, "", FALSE)

Versions == {"HTTP/1.0", "HTTP/1.1", "HTTP/2.0", "FOO/1.0"}

Requests ==
    { Request(3, c, p, v, i) :
        c \in {"GET", "HEAD", "POST"}, p \in Paths, v \in Versions, i \in BOOLEAN }
    \cup { Request(2, c, p, "", FALSE) : c \in {"GET", "HEAD"}, p \in Paths }
    \cup { Request(4, "GET", RootPath, v, FALSE) : v \in {"HTTP/1.0", "FOO/1.0"} }
    \cup { Request(1, "GET", RootPath, "", FALSE), NoReq }

\* The requests the clients of the full server model send
ClientRequests ==
    { Request(3, "GET", RootPath, "HTTP/1.1", FALSE),
      Request(3, "GET", UrlPath(<<AppTsx>>, FALSE, FALSE), "HTTP/1.1", FALSE),
      Request(3, "HEAD", IndexPath, "HTTP/1.0", FALSE),
      Request(3, "POST", RootPath, "HTTP/1.0", FALSE) }

\* parse_request's version check: 'HTTP/<digits>.<digits>'
ValidVersion(v) == v \in {"HTTP/1.0", "HTTP/1.1", "HTTP/2.0"}
\* version_number >= (2, 0)
VersionAtLeast2(v) == v = "HTTP/2.0"

----------------------------------------------------------------------------
(* One connection: its socket, its thread, its GameHandler instance *)

Body(kind, segs, code) == [kind |-> kind, segs |-> segs, code |-> code]
NoBody == Body("none", <<>>, 0)

\* The output side of a handler: the status line and header lines gathered
\* in _headers_buffer (status, headers), whether the block was ended and
\* flushed to the socket (block), the body written after it, whether
\* GameHandler.end_headers ran (game), and the file send_head opened.
NoOutput ==
    [status |-> 0, headers |-> <<>>, block |-> FALSE, body |-> NoBody,
     game |-> FALSE, file |-> <<>>]

FreshHandler ==
    [st |-> "none",             \* none, queued, started, parsed, send_head, done, killed
     client |-> "none",         \* sends a request, or stays silent
     thread |-> "none",         \* the thread finish_request runs on
     daemon |-> FALSE,
     req |-> NoReq,
     command |-> "",
     path |-> RootPath,
     request_version |-> "",
     directory |-> "",
     out |-> NoOutput]

\* BaseHTTPRequestHandler.send_response_only (ver is self.request_version)
send_response_only(ver, o, code) ==
    IF ver # "HTTP/0.9" THEN [o EXCEPT !.status = code] ELSE o

\* BaseHTTPRequestHandler.send_header
send_header(ver, o, keyword, value) ==
    IF ver # "HTTP/0.9" THEN [o EXCEPT !.headers = Append(@, <<keyword, value>>)] ELSE o

\* BaseHTTPRequestHandler.send_response
send_response(ver, o, code) ==
    send_header(ver, send_header(ver, send_response_only(ver, o, code),
                                 "Server", "SimpleHTTP/0.6"),
                "Date", "now")

\* BaseHTTPRequestHandler.end_headers: blank line, then flush_headers
super_end_headers(ver, o) ==
    IF ver # "HTTP/0.9" THEN [o EXCEPT !.block = TRUE] ELSE o

\* The four fixed headers
FixedHeaders ==
    << <<"Access-Control-Allow-Origin", "*">>,
       <<"Cache-Control", "no-store, no-cache, must-revalidate, max-age=0">>,
       <<"Pragma", "no-cache">>,
       <<"Expires", "0">> >>

\* The handler without its end_headers override
end_headers_inherited(ver, o) == super_end_headers(ver, o)

\* GameHandler.end_headers
end_headers(ver, o) ==
    super_end_headers(ver,
        send_header(ver, send_header(ver, send_header(ver, send_header(ver,
            [o EXCEPT !.game = TRUE],
            "Access-Control-Allow-Origin", "*"),
            "Cache-Control", "no-store, no-cache, must-revalidate, max-age=0"),
            "Pragma", "no-cache"),
            "Expires", "0"))

\* wfile.write / copyfile
write_body(o, body) == [o EXCEPT !.body = body]

\* BaseHTTPRequestHandler.send_error (every code used here is >= 200 and
\* none of 204, 205, 304, so the error page is built); command is
\* self.command
send_error(ver, command, o, code) ==
    LET c == end_headers(ver,
                 send_header(ver,
                     send_header(ver,
                         send_header(ver, send_response(ver, o, code),
                                     "Connection", "close"),
                         "Content-Type", "text/html;charset=utf-8"),
                     "Content-Length", "len(body)"))
    IN  IF command # "HEAD" THEN write_body(c, Body("error", <<>>, code)) ELSE c

\* The handler is through: its response, if any, is out
Finished(hd, o) == [hd EXCEPT !.st = "done", !.out = o]

\* handle_one_request up to and including parse_request, on request r
parse_request(hd0, r) ==
    LET hd == [hd0 EXCEPT !.req = r, !.command = "None",
                          !.request_version = "HTTP/0.9"]
        hv == [hd EXCEPT !.request_version = IF r.n >= 3 THEN r.version ELSE @]
    IN
    IF r.n = 0 THEN Finished(hd, hd.out)
    ELSE IF r.n >= 3 /\ ~ValidVersion(r.version)
         THEN Finished(hd, send_error("HTTP/0.9", "None", hd0.out, 400))
    ELSE IF r.n >= 3 /\ VersionAtLeast2(r.version)
         THEN Finished(hd, send_error("HTTP/0.9", "None", hd0.out, 505))
    ELSE IF ~(2 <= r.n /\ r.n <= 3)
         THEN Finished(hv, send_error(hv.request_version, "None", hd0.out, 400))
    ELSE IF r.n = 2 /\ r.command # "GET"
         THEN Finished(hv, send_error(hv.request_version, "None", hd0.out, 400))
    ELSE [hv EXCEPT !.command = r.command, !.path = r.path, !.st = "parsed"]

\* SimpleHTTPRequestHandler.translate_path: the query is dropped, the
\* trailing slash remembered, the words joined under self.directory
translate_path(path) == [segs |-> path.segs, slash |-> path.slash]

\* send_head's tail for a file path: guess_type, open, If-Modified-Since
serve_file(hd, f, tm, segs, slash) ==
    LET ver   == hd.request_version
        ctype == guess_type(tm, segs[Len(segs)])
    IN
    IF slash THEN send_error(ver, hd.command, hd.out, 404)
    ELSE IF ~isfile(f, segs) THEN send_error(ver, hd.command, hd.out, 404)
    ELSE IF hd.req.ims
         THEN end_headers(ver, send_response(ver, [hd.out EXCEPT !.file = segs], 304))
    ELSE LET c == end_headers(ver,
                      send_header(ver,
                          send_header(ver,
                              send_header(ver,
                                  send_response(ver, [hd.out EXCEPT !.file = segs], 200),
                                  "Content-type", ctype),
                              "Content-Length", "st_size"),
                          "Last-Modified", "st_mtime"))
         IN  IF hd.command = "GET" THEN write_body(c, Body("file", segs, 0)) ELSE c

\* SimpleHTTPRequestHandler.list_directory
list_directory(hd, segs) ==
    LET ver == hd.request_version
        b == end_headers(ver,
                 send_header(ver,
                     send_header(ver, send_response(ver, hd.out, 200),
                                 "Content-type", "text/html; charset=utf-8"),
                     "Content-Length", "len(listing)"))
    IN  IF hd.command = "GET" THEN write_body(b, Body("listing", segs, 0)) ELSE b

\* SimpleHTTPRequestHandler.send_head, with the copyfile of do_GET: what
\* the handler has put out when it returns
send_head(hd, f, tm) ==
    LET p   == translate_path(hd.path)
        ver == hd.request_version
    IN
    IF isdir(f, p.segs)
    THEN IF ~hd.path.slash
         THEN end_headers(ver,
                  send_header(ver,
                      send_header(ver, send_response(ver, hd.out, 301),
                                  "Location", "path + '/'"),
                      "Content-Length", "0"))
         ELSE IF isfile(f, Append(p.segs, IndexHtml))
              THEN serve_file(hd, f, tm, Append(p.segs, IndexHtml), FALSE)
              ELSE IF isfile(f, Append(p.segs, IndexHtm))
                   THEN serve_file(hd, f, tm, Append(p.segs, IndexHtm), FALSE)
                   ELSE list_directory(hd, p.segs)
    ELSE serve_file(hd, f, tm, p.segs, p.slash)

\* A test that takes every path whose path part is '/' for the root
IsRootPathAnyQuery(path) == path.segs = <<>>

\* self.path == '/'
IsRootPath(path) == path = RootPath

\* The assignment self.path = '/index.html' as a class attribute write
SetIndexPathOnClass(handlers, h) ==
    [x \in DOMAIN handlers |-> [handlers[x] EXCEPT !.path = IndexPath]]

\* self.path = '/index.html': the instance of this request alone
SetIndexPath(handlers, h) == [handlers EXCEPT ![h].path = IndexPath]

----------------------------------------------------------------------------
(* The server: ThreadedHTTPServer(ThreadingMixIn, TCPServer) *)

\* ThreadingMixIn.daemon_threads as the mix-in ships it
daemon_threads_default == FALSE

\* ThreadedHTTPServer.daemon_threads
daemon_threads == TRUE

\* ThreadingMixIn.block_on_close (the library default)
block_on_close == TRUE

\* BaseServer.process_request, what the class would inherit without the
\* mix-in: finish_request runs on the thread of the accept loop
process_request_inline(h) == "main"

\* ThreadingMixIn.process_request: finish_request runs on a new thread
process_request(h) == "worker"

Running(hd) == hd.st \in {"started", "parsed", "send_head"}

\* The thread of the accept loop is not inside a handler
MainThreadIdle == \A h \in Conns : ~(hs[h].thread = "main" /\ Running(hs[h]))

\* _Threads.join of server_close: every thread that _Threads.append kept
\* (the non-daemon ones, when block_on_close) has ended
ThreadsJoined == \A h \in Conns : (block_on_close /\ ~hs[h].daemon) => ~Running(hs[h])

\* threading._shutdown at interpreter exit waits for the non-daemon threads
NonDaemonEnded == \A h \in Conns : ~hs[h].daemon => ~Running(hs[h])

Alive == pc \notin {"exited", "crashed"}

----------------------------------------------------------------------------
(* start_game_server, as steps of the main thread *)

Say(line) == output' = Append(output, line)

\* Where the bare except of the browser launch leaves the main thread when
\* it re-raises what it caught
AfterBrowserReraise(outcome) ==
    IF outcome \in {"raise", "interrupt"} THEN "crashed" ELSE "bind"

\* try: webbrowser.open(...) except: pass -- every outcome goes on to bind
AfterBrowser(outcome) == "bind"

\* A construction whose bind failure is not raised
AfterConstructBindIgnored(outcome) ==
    CASE outcome \in {"ok", "in_use"} -> "started"
      [] outcome = "interrupt"        -> "interrupted"
      [] OTHER                        -> "report_error"

\* An except clause for OSError alone: anything else leaves uncaught
AfterConstructOSErrorOnly(outcome) ==
    CASE outcome = "ok"        -> "started"
      [] outcome = "interrupt" -> "interrupted"
      [] outcome = "in_use"    -> "report_error"
      [] OTHER                 -> "crashed"

\* with ThreadedHTTPServer(...) under try / except KeyboardInterrupt /
\* except Exception: where each outcome of the construction leads
AfterConstruct(outcome) ==
    CASE outcome = "ok"        -> "started"
      [] outcome = "interrupt" -> "interrupted"
      [] OTHER                 -> "report_error"

\* Where a KeyboardInterrupt raised outside both try statements leads: it
\* leaves start_game_server uncaught
AfterStartupInterrupt == "crashed"

\* Module load: mimetypes.init() and the three add_type calls
LoadModule ==
    /\ pc = "load"
    /\ types_map' = RegisterOverrides(platform)
    /\ pc' = "chdir"
    /\ UNCHANGED <<platform, fs, cwd, portBusy, output, hs, browserAttempts,
                   bindAttempts, intCount, intAt, excAt>>

\* os.chdir(DIRECTORY)
Chdir ==
    /\ pc = "chdir"
    /\ \/ /\ pc' = "banner"
          /\ cwd' = DIRECTORY
          /\ UNCHANGED excAt
       \/ /\ pc' = "crashed"
          /\ excAt' = "chdir"
          /\ UNCHANGED cwd
    /\ UNCHANGED <<types_map, platform, fs, portBusy, output, hs, browserAttempts,
                   bindAttempts, intCount, intAt>>

\* the five print calls of the banner
Banner ==
    /\ pc = "banner"
    /\ \/ /\ pc' = "browser"
          /\ Say("banner")
          /\ UNCHANGED excAt
       \/ /\ pc' = "crashed"
          /\ excAt' = "banner"
          /\ UNCHANGED output
    /\ UNCHANGED <<types_map, platform, fs, cwd, portBusy, hs, browserAttempts,
                   bindAttempts, intCount, intAt>>

\* try: webbrowser.open(...) except: pass
Browser ==
    /\ pc = "browser"
    /\ \E outcome \in {"opened", "not_opened", "raise", "interrupt"} :
          /\ outcome = "interrupt" => intCount < MaxInterrupts
          /\ pc' = AfterBrowser(outcome)
          /\ excAt' = IF outcome = "raise" THEN "browser" ELSE excAt
          /\ intAt' = IF outcome = "interrupt" THEN "browser" ELSE intAt
          /\ intCount' = IF outcome = "interrupt" THEN intCount + 1 ELSE intCount
    /\ browserAttempts' = browserAttempts + 1
    /\ UNCHANGED <<types_map, platform, fs, cwd, portBusy, output, hs, bindAttempts>>

\* ThreadedHTTPServer(("", PORT), GameHandler): socket, server_bind,
\* server_activate; allow_reuse_address is False, so a bound port fails
Construct ==
    /\ pc = "bind"
    /\ \E outcome \in (IF portBusy THEN {"in_use"} ELSE {"ok"}) \cup {"raise", "interrupt"} :
          /\ outcome = "interrupt" => intCount < MaxInterrupts
          /\ pc' = AfterConstruct(outcome)
          /\ excAt' = CASE outcome = "in_use" -> "bind"
                        [] outcome = "raise"  -> "construct"
                        [] OTHER              -> excAt
          /\ intAt' = IF outcome = "interrupt" THEN "bind" ELSE intAt
          /\ intCount' = IF outcome = "interrupt" THEN intCount + 1 ELSE intCount
    /\ bindAttempts' = bindAttempts + 1
    /\ UNCHANGED <<types_map, platform, fs, cwd, portBusy, output, hs, browserAttempts>>

\* the three print calls inside the with block
Announce ==
    /\ pc = "started"
    /\ Say("started")
    /\ pc' = "serve"
    /\ UNCHANGED <<types_map, platform, fs, cwd, portBusy, hs, browserAttempts,
                   bindAttempts, intCount, intAt, excAt>>

\* A KeyboardInterrupt raised in the main thread outside the two steps
\* that have it as an outcome
Interrupt ==
    /\ intCount < MaxInterrupts
    /\ pc \in {"chdir", "banner", "started", "serve"}
    /\ pc' = IF pc \in {"chdir", "banner"} THEN AfterStartupInterrupt ELSE "closing"
    /\ intAt' = pc
    /\ intCount' = intCount + 1
    /\ UNCHANGED <<types_map, platform, fs, cwd, portBusy, output, hs,
                   browserAttempts, bindAttempts, excAt>>

\* with ... __exit__: server_close closes the socket and joins _threads;
\* the KeyboardInterrupt then reaches its except clause
ServerClose ==
    /\ pc = "closing"
    /\ ThreadsJoined
    /\ pc' = "interrupted"
    /\ UNCHANGED output
    /\ UNCHANGED <<types_map, platform, fs, cwd, portBusy, hs, browserAttempts,
                   bindAttempts, intCount, intAt, excAt>>

\* except KeyboardInterrupt: the shutdown message
Farewell ==
    /\ pc = "interrupted"
    /\ Say("bye")
    /\ pc' = "returned"
    /\ UNCHANGED <<types_map, platform, fs, cwd, portBusy, hs, browserAttempts,
                   bindAttempts, intCount, intAt, excAt>>

\* except Exception as e: the failure line and the port hint
ReportFailure ==
    /\ pc = "report_error"
    /\ output' = output \o <<"failed", "hint">>
    /\ pc' = "returned"
    /\ UNCHANGED <<types_map, platform, fs, cwd, portBusy, hs, browserAttempts,
                   bindAttempts, intCount, intAt, excAt>>

\* start_game_server returns and the interpreter exits: it waits for the
\* non-daemon threads and abandons the daemon ones
Exit ==
    /\ pc = "returned"
    /\ NonDaemonEnded
    /\ pc' = "exited"
    /\ hs' = [h \in Conns |-> IF Running(hs[h]) THEN [hs[h] EXCEPT !.st = "killed"] ELSE hs[h]]
    /\ UNCHANGED <<types_map, platform, fs, cwd, portBusy, output, browserAttempts,
                   bindAttempts, intCount, intAt, excAt>>

----------------------------------------------------------------------------
(* Connections and their handlers *)

unch_main == <<pc, types_map, platform, fs, cwd, portBusy, output, browserAttempts,
               bindAttempts, intCount, intAt, excAt>>

\* A client connects to the listening socket; the kernel queues it. The
\* client will send its request, or stay silent for ever.
Connect(h) ==
    /\ pc \in {"started", "serve"}
    /\ hs[h].st = "none"
    /\ \A g \in Conns : g < h => hs[g].st # "none"
    /\ \E c \in {"sends", "silent"} :
          hs' = [hs EXCEPT ![h].st = "queued", ![h].client = c]
    /\ UNCHANGED unch_main

\* serve_forever: select, get_request, process_request
Accept(h) ==
    /\ pc = "serve"
    /\ MainThreadIdle
    /\ hs[h].st = "queued"
    /\ hs' = [hs EXCEPT ![h].st = "started",
                        ![h].thread = process_request(h),
                        ![h].daemon = daemon_threads]
    /\ UNCHANGED unch_main

\* GameHandler.__init__ (directory=DIRECTORY), then handle_one_request
\* reads the request line and parse_request parses it
ParseRequest(h, r) ==
    /\ Alive
    /\ hs[h].st = "started"
    /\ hs[h].client = "sends"
    /\ hs' = [hs EXCEPT ![h] = parse_request([hs[h] EXCEPT !.directory = DIRECTORY], r)]
    /\ UNCHANGED unch_main

\* handle_one_request: no do_<command> method
Unsupported(h) ==
    /\ Alive
    /\ hs[h].st = "parsed"
    /\ hs[h].command \notin {"GET", "HEAD"}
    /\ hs' = [hs EXCEPT ![h] = Finished(hs[h], send_error(hs[h].request_version,
                                                         hs[h].command, hs[h].out, 501))]
    /\ UNCHANGED unch_main

\* GameHandler.do_GET up to the call of super().do_GET()
do_GET(h) ==
    /\ Alive
    /\ hs[h].st = "parsed"
    /\ hs[h].command = "GET"
    /\ hs' = [(IF IsRootPath(hs[h].path) THEN SetIndexPath(hs, h) ELSE hs)
                 EXCEPT ![h].st = "send_head"]
    /\ UNCHANGED unch_main

\* SimpleHTTPRequestHandler.do_HEAD up to the call of send_head
do_HEAD(h) ==
    /\ Alive
    /\ hs[h].st = "parsed"
    /\ hs[h].command = "HEAD"
    /\ hs' = [hs EXCEPT ![h].st = "send_head"]
    /\ UNCHANGED unch_main

\* send_head and the copy of the file: the response goes out
SendHead(h) ==
    /\ Alive
    /\ hs[h].st = "send_head"
    /\ hs' = [hs EXCEPT ![h] = Finished(hs[h], send_head(hs[h], fs, types_map))]
    /\ UNCHANGED unch_main

HandlerStep(h, R) ==
    \/ \E r \in R : ParseRequest(h, r)
    \/ Unsupported(h)
    \/ do_GET(h)
    \/ do_HEAD(h)
    \/ SendHead(h)

----------------------------------------------------------------------------
(* Specifications *)

Init ==
    /\ pc = "load"
    /\ platform \in PlatformTables
    /\ types_map = platform
    /\ fs \in FsConfigs
    /\ cwd = "elsewhere"
    /\ portBusy \in BOOLEAN
    /\ output = <<>>
    /\ hs = [h \in Conns |-> FreshHandler]
    /\ browserAttempts = 0
    /\ bindAttempts = 0
    /\ intCount = 0
    /\ intAt = "none"
    /\ excAt = "none"

MainStep ==
    \/ LoadModule
    \/ Chdir
    \/ Banner
    \/ Browser
    \/ Construct
    \/ Announce
    \/ \E h \in Conns : Accept(h)
    \/ ServerClose
    \/ Farewell
    \/ ReportFailure
    \/ Exit

Next ==
    \/ MainStep
    \/ Interrupt
    \/ \E h \in Conns : Connect(h)
    \/ \E h \in Conns : HandlerStep(h, ClientRequests)

Spec == Init /\ [][Next]_vars

\* One served directory and one platform table, for the properties of
\* scheduling and shutdown, which read neither
FairInit ==
    /\ Init
    /\ isfile(fs, <<IndexHtml>>)
    /\ ".ts" \in DOMAIN platform /\ ".tsx" \notin DOMAIN platform

\* The scheduler runs every thread that can take a step: the main thread
\* and each handler thread. Clients and interrupts are under no obligation.
FairSpec ==
    /\ FairInit /\ [][Next]_vars
    /\ WF_vars(MainStep)
    /\ \A h \in Conns : WF_vars(HandlerStep(h, ClientRequests))

\* The server in its serve loop with connection 1 accepted, over every
\* request, served directory and platform table of the model
ReqInit ==
    /\ pc = "serve"
    /\ platform \in PlatformTables
    /\ types_map = RegisterOverrides(platform)
    /\ fs \in FsConfigs
    /\ cwd = DIRECTORY
    /\ portBusy = FALSE
    /\ output = <<"banner", "started">>
    /\ hs = [h \in Conns |->
               IF h = 1 THEN [FreshHandler EXCEPT !.st = "started", !.client = "sends",
                                                   !.thread = process_request(h),
                                                   !.daemon = daemon_threads]
               ELSE FreshHandler]
    /\ browserAttempts = 1
    /\ bindAttempts = 1
    /\ intCount = 0
    /\ intAt = "none"
    /\ excAt = "none"

ReqNext == HandlerStep(1, Requests)

ReqSpec == ReqInit /\ [][ReqNext]_vars

----------------------------------------------------------------------------
(* Properties *)

Range(seq) == { seq[i] : i \in 1..Len(seq) }

HeaderValue(headers, keyword) ==
    headers[CHOOSE i \in 1..Len(headers) : headers[i][1] = keyword][2]

HasFixedHeaders(hd) == \A i \in 1..Len(FixedHeaders) : FixedHeaders[i] \in Range(hd.out.headers)

\* Something went to the socket
Responded(hd) == hd.out.block \/ hd.out.body # NoBody

\* One request handled from start to end with no other request around:
\* parse_request, the dispatch of handle_one_request, GameHandler.do_GET,
\* send_head
handle_one_request(r, f, tm) ==
    LET a == parse_request([FreshHandler EXCEPT !.st = "started", !.client = "sends",
                                                 !.directory = DIRECTORY], r)
    IN  IF a.st = "done" THEN a
        ELSE IF a.command \notin {"GET", "HEAD"}
             THEN Finished(a, send_error(a.request_version, a.command, a.out, 501))
        ELSE LET b == IF a.command = "GET" /\ IsRootPath(a.path)
                      THEN SetIndexPath(<<a>>, 1)[1] ELSE a
             IN  Finished(b, send_head(b, f, tm))

EndsWith(seq, tail) ==
    /\ Len(seq) >= Len(tail)
    /\ SubSeq(seq, Len(seq) - Len(tail) + 1, Len(seq)) = tail

\* C1 as stated: every response the server sends, whatever the path and the
\* status (200, 301, 304, 404, 501, 400), carries the four fixed headers.
C1_EveryResponseCarriesFixedHeaders ==
    \A h \in Conns :
        (hs[h].st = "done" /\ Responded(hs[h])) => HasFixedHeaders(hs[h])

\* C1 amended: every response to a request whose version was accepted as
\* HTTP/1.x has a header block, and every header block sent was ended by
\* GameHandler.end_headers and carries the four fixed headers; a response
\* written while request_version is still HTTP/0.9 (a two-word request
\* line, a bad or unsupported version, a one-word line) has no header block.
C1_HeaderBlocksCarryFixedHeaders ==
    \A h \in Conns :
        (hs[h].st = "done" /\ Responded(hs[h])) =>
            /\ hs[h].request_version # "HTTP/0.9" =>
                  hs[h].out.block /\ hs[h].out.status \in {200, 301, 304, 400, 404, 501}
            /\ hs[h].out.block => hs[h].out.game /\ HasFixedHeaders(hs[h])
            /\ hs[h].request_version = "HTTP/0.9" => ~hs[h].out.block

\* a 400 for a malformed four-word request line went out with the four headers
C1_Witness ==
    \E h \in Conns :
        /\ hs[h].st = "done"
        /\ hs[h].req.n = 4
        /\ hs[h].out.status = 400
        /\ HasFixedHeaders(hs[h])

\* C2: when index.html exists, GET '/' gets the response GET '/index.html'
\* gets (status, headers with the content type, body); do_GET rewrites
\* self.path only when it is exactly '/', and hands every other path
\* ('/?q', '/index.html', sub-directory paths) on unchanged.
C2_RootServesIndexOnlyForExactRoot ==
    \A h \in Conns :
        LET hd == hs[h] IN
        /\ (hd.st \in {"send_head", "done"} /\ hd.command = "GET") =>
              hd.path = (IF hd.req.path = RootPath THEN IndexPath ELSE hd.req.path)
        /\ (hd.st = "done" /\ hd.command = "GET" /\ hd.req.path = RootPath
                /\ isfile(fs, <<IndexHtml>>)) =>
              hd.out = handle_one_request([hd.req EXCEPT !.path = IndexPath], fs, types_map).out

\* GET '/' answered 200 with the bytes of index.html
C2_Witness ==
    \E h \in Conns :
        /\ hs[h].st = "done"
        /\ hs[h].req.path = RootPath
        /\ hs[h].req.n = 3
        /\ hs[h].out.status = 200
        /\ hs[h].out.body = Body("file", <<IndexHtml>>, 0)

\* The extension the type lookup resolves for a file name: the last suffix
\* when the handler's own table knows it, else the extension under a
\* trailing encoding suffix, case-folded
LookupExt(name) ==
    LET e0 == splitext(name) IN
    IF e0 \in DOMAIN extensions_map THEN e0
    ELSE Lower(IF e0 \in encodings_map THEN name.ext ELSE e0)

OverrideExts == {".ts", ".tsx", ".json"}

\* C6: the overrides are layered over the platform table: a served file
\* whose extension is .ts or .tsx goes out as application/javascript and
\* .json as application/json whatever the platform table holds for it, and
\* a file of any other extension gets the type the handler would give it
\* from the platform table alone.
C6_OverridesLayeredOverPlatform ==
    \A h \in Conns :
        LET hd == hs[h] IN
        (hd.st = "done" /\ hd.out.status = 200 /\ hd.out.file # <<>>) =>
            LET name  == hd.out.file[Len(hd.out.file)]
                ctype == HeaderValue(hd.out.headers, "Content-type")
            IN  /\ LookupExt(name) \in {".ts", ".tsx"} => ctype = "application/javascript"
                /\ LookupExt(name) = ".json" => ctype = "application/json"
                /\ LookupExt(name) \notin OverrideExts => ctype = guess_type(platform, name)

\* lib.ts went out as application/javascript on a platform that calls .ts
\* something else
C6_Witness ==
    \E h \in Conns :
        /\ hs[h].st = "done"
        /\ hs[h].out.status = 200
        /\ hs[h].out.file = <<LibTs>>
        /\ ".ts" \in DOMAIN platform
        /\ platform[".ts"] # "application/javascript"
        /\ HeaderValue(hs[h].out.headers, "Content-type") = "application/javascript"

\* A connection the server owes a step: queued while the accept loop runs,
\* or accepted with a request that was sent and no response finished
Pending(h) ==
    \/ hs[h].st = "queued" /\ pc \in {"started", "serve"}
    \/ Running(hs[h]) /\ hs[h].client = "sends"

\* C3: every connection is handled on a thread of its own: the accept loop
\* is never inside a handler, and whatever the other handlers are blocked
\* on, again and again no connection is left waiting to be accepted and no
\* request that was sent is left unanswered (until the process shuts down).
C3_HandlersNeverStallTheServer ==
    /\ [](pc = "serve" => MainThreadIdle)
    /\ [](\A h \in Conns : Running(hs[h]) => hs[h].thread = "worker")
    /\ []<>(\A h \in Conns : ~Pending(h))

\* one handler is blocked on a silent client while another request was
\* answered with a file
C3_Witness ==
    \E g, h \in Conns :
        /\ hs[g].st = "started" /\ hs[g].client = "silent"
        /\ hs[h].st = "done" /\ hs[h].out.status = 200
        /\ pc = "serve"

\* C4: with the port already bound the server never reaches its serve loop
\* and never accepts: the one construction fails, the failure line and
\* the port hint are printed, and the process ends.
C4_BoundPortEndsStartup ==
    /\ [](portBusy =>
            /\ pc \notin {"started", "serve", "closing"}
            /\ \A h \in Conns : hs[h].st = "none"
            /\ bindAttempts <= 1)
    /\ []((excAt = "bind" /\ pc \in {"returned", "exited"}) =>
            EndsWith(output, <<"failed", "hint">>))
    /\ (excAt = "bind") ~> (pc = "exited")

\* the process ended after a failed bind, the failure and the hint printed last
C4_Witness ==
    /\ portBusy
    /\ excAt = "bind"
    /\ pc = "exited"
    /\ output = <<"banner", "failed", "hint">>

\* C5: an interrupt in the serve loop leads to the shutdown message and
\* process exit whatever the handler threads are doing: they are daemon
\* threads, server_close joins none of them.
C5_InterruptInServeLoopExits ==
    /\ [](\A h \in Conns : hs[h].thread # "none" => hs[h].daemon)
    /\ [](pc = "closing" => ThreadsJoined)
    /\ (intAt = "serve") ~> (pc = "exited" /\ EndsWith(output, <<"bye">>))

\* the process exited on an interrupt while a handler was still waiting
\* for its client
C5_Witness ==
    /\ intAt = "serve"
    /\ pc = "exited"
    /\ EndsWith(output, <<"bye">>)
    /\ \E h \in Conns : hs[h].st = "killed" /\ hs[h].client = "silent"

\* C7 as stated, in the clause the rest of it rests on: in no phase is an
\* interrupt swallowed, so once one was delivered after start_game_server
\* began the main thread is not on its way into the serve loop or in it.
C7_InterruptNeverSwallowed ==
    intCount > 0 => pc \notin {"bind", "started", "serve"}

C9_StartupOrderAndSilentBrowserFailure ==
    /\ [](browserAttempts <= 1)
    /\ [](pc = "browser" => output = <<"banner">> /\ browserAttempts = 0 /\ bindAttempts = 0)
    /\ [](bindAttempts > 0 \/ pc \in {"bind", "started", "serve"} =>
            browserAttempts = 1 /\ output[1] = "banner")
    /\ [](pc = "serve" => output = <<"banner", "started">> /\ bindAttempts = 1)
    /\ [](excAt = "browser" => pc # "crashed" /\ output \in {<<"banner">>, <<"banner", "started">>, <<"banner", "bye">>, <<"banner", "started", "bye">>})
    /\ [][pc = "browser" => pc' = "bind" /\ output' = output]_vars

\* the launch raised, and the server is in its serve loop with nothing
\* printed but the banner and the start lines
C9_Witness ==
    /\ excAt = "browser"
    /\ pc = "serve"
    /\ output = <<"banner", "started">>
    /\ browserAttempts = 1

\* C10: a response is what handling its request alone gives, whatever the
\* other connections do meanwhile; a handler step changes its own handler
\* and nothing else; the MIME table is not written after module load, the
\* working directory not after chdir, and every handler serves DIRECTORY.
C10_NoCrossRequestState ==
    /\ [](\A h \in Conns :
            hs[h].st = "done" => hs[h].out = handle_one_request(hs[h].req, fs, types_map).out)
    /\ [](\A h \in Conns : hs[h].st \in {"parsed", "send_head", "done"} =>
            hs[h].directory = DIRECTORY)
    /\ [][ /\ pc # "load" => types_map' = types_map
           /\ pc # "chdir" => cwd' = cwd
           /\ \A h \in Conns :
                 (Running(hs[h]) /\ hs'[h] # hs[h] /\ pc' = pc) =>
                     /\ \A g \in Conns \ {h} : hs'[g] = hs[g]
                     /\ types_map' = types_map /\ cwd' = cwd /\ fs' = fs ]_vars

\* two connections answered in one run: '/' with index.html after the
\* rewrite, and '/app.tsx' with its own file
C10_Witness ==
    \E g, h \in Conns :
        /\ hs[g].st = "done" /\ hs[g].req.path = RootPath /\ hs[g].path = IndexPath
        /\ hs[h].st = "done" /\ hs[h].req.path = UrlPath(<<AppTsx>>, FALSE, FALSE)
        /\ hs[h].out.body = Body("file", <<AppTsx>>, 0)

====
